---- MODULE Spec2Model ----
(***************************************************************************)
(* file-store-client: the push, image-push and pull commands of            *)
(* src/src/main.rs and the write-handle registry of                        *)
(* src/src/controller/mod.rs, as one state machine.                        *)
(*                                                                         *)
(* One behaviour is one run of the command line tool: Init draws the       *)
(* sub-command and its arguments, the actions are the steps of the command *)
(* between its suspension points.  An awaited RPC is two steps (the call   *)
(* is issued, the reply arrives); a call without a reply is one step.      *)
(* The server and the transport are the environment: every awaited call    *)
(* may return an error.  `trace` records what the client issued, in order. *)
(***************************************************************************)
EXTENDS Integers, Sequences, FiniteSets, TLC

\* ------------------------------------------------------------------ bounds
\* largest local or remote file, in bytes
MaxSize == 3
\* largest --block argument
MaxBlock == 2
\* most files in an image tree
MaxFiles == 2

\* ------------------------------------------------------- program constants
\* `retry_count < 20` of the drain loop
RetryLimit == 20
\* `tokio::sync::mpsc::channel(1024)`
ChannelCap == 1024

\* ------------------------------------------------------------------ values
NoFile == [exists |-> FALSE, data |-> <<>>]
\* a local file holding d
File(d) == [exists |-> TRUE, data |-> d]
\* Option<String>: None, and Some(d)
None == <<>>
Some(d) == <<d>>
NoInfo == [name |-> "", size |-> 0, b3 |-> None]
NoPath == <<>>
NoCall == [op |-> "none", step |-> "", key |-> 0, offset |-> 0, data |-> <<>>]
\* the name the server reports for the remote file
RemoteName == "n"
\* a local file that was there before the command
OldFile == File(<<9>>)
Byte == {1, 2}

Min(a, b) == IF a < b THEN a ELSE b

\* all byte strings of length at most n
RECURSIVE SeqsUpTo(_)
SeqsUpTo(n) ==
    IF n = 0 THEN {<<>>}
    ELSE LET shorter == SeqsUpTo(n - 1)
         IN shorter \cup {Append(s, b) : s \in {t \in shorter : Len(t) = n - 1}, b \in Byte}

\* the local file of n bytes that a push reads: byte i holds i, so that a
\* chunk names the place it was read from
LocalFile(n) == [i \in 1..n |-> i]

\* blake3 of a byte string, as the hex string the two sides compare: a fold
\* over the bytes, without collisions among the short strings of the model
RECURSIVE blake3(_)
blake3(s) ==
    IF s = <<>> THEN 7
    ELSE (blake3(SubSeq(s, 1, Len(s) - 1)) * 11 + s[Len(s)] + 1) % 100000007

VARIABLES
    cmd,          \* the sub-command: "push", "image" or "pull"
    async,        \* --async
    block,        \* --block
    overwrite,    \* --overwrite
    pc,           \* where the command is
    result,       \* what main returns: [done, ok, msg]
    trace,        \* the calls, replies and sleeps of the running transfer, in order
    uploads,      \* push: [name, key, finished] of every push that got a key, in order
    locked,       \* image push: the filename lists passed to lock, one per call
    nextKey,      \* the server's next transfer key
    files,        \* push: the local files, [name, data]
    check_files,  \* image push: the logical names passed to lock
    idx,          \* push: index in files of the file being pushed
    key,          \* the transfer key of the running transfer (0: none yet)
    fpos,         \* push: bytes of the local file already read (its cursor)
    position,     \* push: `position`
    len,          \* push: length of the chunk of the awaited write
    loopExit,     \* push: how the read loop of the current file ended
    retry_count,  \* push: `retry_count`
    success,      \* image push: the flag of the reply of lock
    msg,          \* image push: the message of the reply of lock
    save,         \* pull: --save: "none", "dir" (a directory) or "file"
    fs,           \* pull: the local file system: path -> content, or NoFile
    fs0,          \* pull: the local file system when the command started
    info,         \* pull: the FileInfo get_file_info returned
    remote,       \* pull: the bytes the server serves under the pull key
    save_path,    \* pull: `save_path`
    offset,       \* pull: `offset`
    b3,           \* pull: the digest recomputed over the saved file
    created,      \* pull: the command has opened (created) its save file
    deleted,      \* pull: the command has removed the save file it created
    installed,    \* async pull: the ClientController is installed on the transport
    registry,     \* async pull: FileWriteService.files: key -> write handle
    chan,         \* async pull: the byte counts sent and not yet received
    inflight,     \* async pull: write_file_by_key calls sent and not yet dispatched
    actor,        \* async pull: the call the actor is running, or NoCall
    logged        \* async pull: number of errors write_file_by_key logged

pushVars == <<files, check_files, idx, fpos, position, len, loopExit, retry_count>>
argVars == <<cmd, async, block, overwrite>>
histVars == <<trace, uploads, locked>>
pullVars == <<save, fs, fs0, info, remote, save_path, offset, b3, created, deleted>>
wfsVars == <<installed, registry, chan, inflight, actor, logged>>
vars == <<argVars, pc, result, histVars, nextKey, key, success, msg, pushVars, pullVars, wfsVars>>

Running == [done |-> FALSE, ok |-> FALSE, msg |-> ""]
Success == [done |-> TRUE, ok |-> TRUE, msg |-> ""]
Failure(m) == [done |-> TRUE, ok |-> FALSE, msg |-> m]

\* one issued call
Rpc(op, k, off, d, a) == [op |-> op, key |-> k, offset |-> off, data |-> d, arg |-> a]

\* messages the server may put in a (false, msg) reply of lock
LockMsgs == {"conflict: foo/bar"}

\* ------------------------------------------------------------------ Init
PushFiles == {<<[name |-> <<"dir", "f1">>, data |-> LocalFile(n)]>> : n \in 0..MaxSize}

\* the walk of an image tree lists each file once: the i-th file found is
\* img/i; the files are all empty, or each is a byte shorter than the one
\* before it
ImageFiles ==
    UNION {{[i \in 1..k |-> [name |-> <<"img", i>>, data |-> LocalFile(0)]],
            [i \in 1..k |-> [name |-> <<"img", i>>, data |-> LocalFile(MaxSize + 1 - i)]]}
           : k \in 1..MaxFiles}

\* the places a pull may save to: ./name, dir/name, or the file given
SavePath(sv, name) ==
    CASE sv = "none" -> <<name>>
      [] sv = "dir" -> <<"d", name>>
      [] sv = "file" -> <<"s">>

Paths == {SavePath(sv, RemoteName) : sv \in {"none", "dir", "file"}}

PullCommand ==
    /\ cmd = "pull"
    /\ pc = "info_call"
    /\ save \in {"none", "dir", "file"}
    /\ \E exists \in BOOLEAN :
         fs0 = [p \in Paths |-> IF p = SavePath(save, RemoteName) /\ ~exists THEN NoFile ELSE OldFile]
    /\ files = <<>>

InitNoPull ==
    /\ save = "none"
    /\ fs0 = [p \in Paths |-> NoFile]

PushCommand ==
    /\ cmd = "push"
    /\ files \in PushFiles
    /\ pc = "push_call"
    /\ InitNoPull

ImageCommand ==
    /\ cmd = "image"
    /\ files \in ImageFiles
    /\ pc = "lock_call"
    /\ InitNoPull

InitRest ==
    /\ async \in BOOLEAN
    /\ block \in 1..MaxBlock
    /\ overwrite \in BOOLEAN
    /\ idx = 1
    /\ fs = fs0
    /\ info = NoInfo
    /\ remote = <<>>
    /\ save_path = NoPath
    /\ offset = 0
    /\ b3 = None
    /\ created = FALSE
    /\ deleted = FALSE
    /\ installed = FALSE
    /\ registry = {}
    /\ chan = <<>>
    /\ inflight = {}
    /\ actor = NoCall
    /\ logged = 0
    /\ result = Running
    /\ trace = <<>>
    /\ uploads = <<>>
    /\ locked = <<>>
    /\ nextKey = 1
    /\ check_files = <<>>
    /\ key = 0
    /\ fpos = 0
    /\ position = 0
    /\ len = 0
    /\ loopExit = "none"
    /\ retry_count = 0
    /\ success = FALSE
    /\ msg = ""

\* main: the state at the start of each command
InitPush == PushCommand /\ InitRest

InitImage == ImageCommand /\ InitRest

InitPull == PullCommand /\ InitRest

\* ------------------------------------------------------------ push engine
CurFile == files[idx]
CurSize == Len(CurFile.data)

\* an error that is recorded while the command goes on with its calls
FailAndGoOn(m) ==
    /\ pc' = IF pc = "lock_wait" THEN "push_call" ELSE "finish_call"
    /\ result' = Failure(m)

\* how a failed command ends: `?` returns the error to main
Fail(m) ==
    /\ pc' = "done"
    /\ result' = Failure(m)

\* push_image: the logical name of each file, in the order of the walk
CheckFiles(list) == [i \in 1..Len(list) |-> list[i].name]

\* the reply to an awaited call, as the client sees it
Reply(op, k, outcome) == Rpc("reply", k, 0, <<>>, <<op, outcome>>)

\* push_image: lock(check_files, overwrite) is issued
CallLock ==
    /\ pc = "lock_call"
    /\ check_files' = CheckFiles(files)
    /\ trace' = Append(trace, Rpc("lock", 0, 0, <<>>, <<CheckFiles(files), overwrite>>))
    /\ locked' = Append(locked, CheckFiles(files))
    /\ pc' = "lock_wait"
    /\ UNCHANGED <<pullVars, wfsVars, argVars, result, uploads, nextKey, key, success, msg, files, idx, fpos, position, len,
                   loopExit, retry_count>>

\* a refusal that is only logged: the files are pushed all the same
LockIgnored(m) ==
    /\ pc' = "push_call"
    /\ UNCHANGED result

\* push_image: the else branch of `if success`: the message is logged
LockRefused(m) ==
    /\ pc' = "done"
    /\ result' = Success

\* push_image: the reply of lock
RetLock ==
    /\ pc = "lock_wait"
    /\ \/ /\ Fail("lock error")
          /\ trace' = Append(trace, Reply("lock", 0, "err"))
          /\ UNCHANGED <<success, msg>>
       \/ \E m \in LockMsgs :
            /\ success' = FALSE
            /\ msg' = m
            /\ LockRefused(m)
            /\ trace' = Append(trace, Reply("lock", 0, "false"))
       \/ /\ success' = TRUE
          /\ msg' = ""
          /\ pc' = "push_call"
          /\ trace' = Append(trace, Reply("lock", 0, "true"))
          /\ UNCHANGED result
    /\ UNCHANGED <<pullVars, wfsVars, argVars, uploads, locked, nextKey, key, pushVars>>

\* a loop that takes the names from the end of the list
PushNameFromEnd ==
    IF cmd = "image" THEN check_files[Len(check_files) + 1 - idx] ELSE CurFile.name

\* the name a file is pushed under: in an image push the name zipped with
\* the file, `files.into_iter().zip(check_files.into_iter())`; in a push the
\* name made from the file's own
PushName == IF cmd = "image" THEN check_files[idx] ELSE CurFile.name

\* push: push(push_file_name, size, hash, overwrite) is issued.  The digest is
\* taken over what the hashing loop read: the loop ends on the first read
\* error as it does on end of file
CallPush ==
    /\ pc = "push_call"
    /\ \E h \in 0..CurSize :
         trace' = Append(trace, Rpc("push", 0, 0, <<>>,
                     <<PushName, CurSize, blake3(SubSeq(CurFile.data, 1, h)), overwrite>>))
    /\ pc' = "push_wait"
    /\ UNCHANGED <<pullVars, wfsVars, argVars, result, uploads, locked, nextKey, key, success, msg, pushVars>>

\* push: the reply of push: a new key, or an error
RetPush ==
    /\ pc = "push_wait"
    /\ \/ /\ Fail("push error")
          /\ trace' = Append(trace, Reply("push", 0, "err"))
          /\ UNCHANGED <<uploads, nextKey, key, fpos, position, loopExit>>
       \/ /\ key' = nextKey
          /\ uploads' = Append(uploads, [name |-> PushName, key |-> nextKey, finished |-> FALSE])
          /\ nextKey' = nextKey + 1
          /\ fpos' = 0
          /\ position' = 0
          /\ loopExit' = "none"
          /\ pc' = "read"
          /\ trace' = Append(trace, Reply("push", nextKey, "ok"))
          /\ UNCHANGED result
    /\ UNCHANGED <<pullVars, wfsVars, argVars, locked, success, msg, files, check_files, idx, len, retry_count>>

\* push: `position += len as u64`
Advance(pos, n) == pos + n

\* push: where the command goes when the read loop is over
AfterLoop == IF async THEN "check_call" ELSE "finish_call"

\* a write that is sent like write_offset: the loop goes on without the reply
NoAwaitWrite == "read"

\* push: `server.write(key, &buff[..len]).await?`: the loop waits for the reply
AwaitWrite == "write_wait"

\* push: one turn of `while let Ok(len) = file.read(&mut buff).await`: the
\* read returns between 1 and block bytes, 0 at end of file, or an error
ReadBlock ==
    /\ pc = "read"
    /\ \/ \E n \in 1..Min(block, CurSize - fpos) :
            LET chunk == SubSeq(CurFile.data, fpos + 1, fpos + n) IN
            /\ fpos' = fpos + n
            /\ IF async
               THEN /\ trace' = Append(trace, Rpc("write_offset", key, position, chunk, <<>>))
                    /\ position' = Advance(position, n)
                    /\ pc' = "read"
                    /\ UNCHANGED len
               ELSE /\ trace' = Append(trace, Rpc("write", key, 0, chunk, <<>>))
                    /\ len' = n
                    /\ pc' = AwaitWrite
                    /\ UNCHANGED position
            /\ UNCHANGED <<loopExit, retry_count>>
       \/ /\ fpos = CurSize
          /\ loopExit' = "eof"
          /\ pc' = AfterLoop
          /\ retry_count' = 0
          /\ UNCHANGED <<trace, fpos, position, len>>
       \/ /\ loopExit' = "error"
          /\ pc' = AfterLoop
          /\ retry_count' = 0
          /\ UNCHANGED <<trace, fpos, position, len>>
    /\ UNCHANGED <<pullVars, wfsVars, argVars, result, uploads, locked, nextKey, key, success, msg, files, check_files, idx>>

\* push: the reply of the awaited write
RetWrite ==
    /\ pc = "write_wait"
    /\ \/ /\ Fail("write error")
          /\ trace' = Append(trace, Reply("write", key, "err"))
          /\ UNCHANGED position
       \/ /\ position' = Advance(position, len)
          /\ pc' = "read"
          /\ trace' = Append(trace, Reply("write", key, "ok"))
          /\ UNCHANGED result
    /\ UNCHANGED <<pullVars, wfsVars, argVars, uploads, locked, nextKey, key, success, msg, files, check_files, idx,
                   fpos, len, loopExit, retry_count>>

\* push: check_finish(key) is issued, the condition of the drain loop
CallCheckFinish ==
    /\ pc = "check_call"
    /\ trace' = Append(trace, Rpc("check_finish", key, 0, <<>>, <<>>))
    /\ pc' = "check_wait"
    /\ UNCHANGED <<pullVars, wfsVars, argVars, result, uploads, locked, nextKey, key, success, msg, pushVars>>

\* a drain loop that goes on while `retry_count <= 20`
DrainAgainLate(finished, count) == ~finished /\ count <= RetryLimit

\* push: `!server.check_finish(key).await? && retry_count < 20`
DrainAgain(finished, count) == ~finished /\ count < RetryLimit

\* a drain loop after which the push returns without push_finish
AfterDrainGiveUp == "done"

\* push: the statement after the drain loop: push_finish, whether the loop
\* ended on a true reply or on the count
AfterDrain == "finish_call"

\* push: the reply of check_finish
RetCheckFinish ==
    /\ pc = "check_wait"
    /\ \/ /\ Fail("check_finish error")
          /\ trace' = Append(trace, Reply("check_finish", key, "err"))
       \/ \E finished \in BOOLEAN :
            /\ pc' = IF DrainAgain(finished, retry_count) THEN "sleep" ELSE AfterDrain
            /\ trace' = Append(trace, Reply("check_finish", key, IF finished THEN "true" ELSE "false"))
            /\ UNCHANGED result
    /\ UNCHANGED <<pullVars, wfsVars, argVars, uploads, locked, nextKey, key, success, msg, pushVars>>

\* push: the body of the drain loop: sleep 10 ms, `retry_count += 1`
Sleep ==
    /\ pc = "sleep"
    /\ trace' = Append(trace, Rpc("sleep", key, 0, <<>>, <<>>))
    /\ retry_count' = retry_count + 1
    /\ pc' = "check_call"
    /\ UNCHANGED <<pullVars, wfsVars, argVars, result, uploads, locked, nextKey, key, success, msg, files,
                   check_files, idx, fpos, position, len, loopExit>>

\* push: push_finish(key) is issued
CallPushFinish ==
    /\ pc = "finish_call"
    /\ trace' = Append(trace, Rpc("push_finish", key, 0, <<>>, <<>>))
    /\ pc' = "finish_wait"
    /\ UNCHANGED <<pullVars, wfsVars, argVars, result, uploads, locked, nextKey, key, success, msg, pushVars>>

\* push_image: the `for` over the files: the next file, or the end.  The
\* transfer of the file is over: its record of calls is dropped
NextFile ==
    IF cmd = "image" /\ idx < Len(files)
    THEN /\ idx' = idx + 1
         /\ pc' = "push_call"
         /\ trace' = <<>>
         /\ UNCHANGED result
    ELSE /\ pc' = "done"
         /\ result' = Success
         /\ trace' = Append(trace, Reply("push_finish", key, "ok"))
         /\ UNCHANGED idx

\* the upload of key k is over
Finished(ups, k) == [i \in 1..Len(ups) |-> IF ups[i].key = k THEN [ups[i] EXCEPT !.finished = TRUE] ELSE ups[i]]

\* push: the reply of push_finish
RetPushFinish ==
    /\ pc = "finish_wait"
    /\ \/ /\ Fail("push_finish error")
          /\ trace' = Append(trace, Reply("push_finish", key, "err"))
          /\ UNCHANGED <<idx, uploads>>
       \/ /\ NextFile
          /\ uploads' = Finished(uploads, key)
    /\ UNCHANGED <<pullVars, wfsVars, argVars, locked, nextKey, key, success, msg, files, check_files, fpos, position,
                   len, loopExit, retry_count>>

\* ------------------------------------------------------------ pull engine
\* the contents a remote file may have
Contents == SeqsUpTo(MaxSize)

\* pull_file: get_file_info(file, true, false) is issued
CallGetFileInfo ==
    /\ pc = "info_call"
    /\ trace' = Append(trace, Rpc("get_file_info", 0, 0, <<>>, <<TRUE, FALSE>>))
    /\ pc' = "info_wait"
    /\ UNCHANGED <<argVars, result, uploads, locked, nextKey, key, success, msg, pushVars,
                   pullVars, wfsVars>>

\* a check of the digest that lets every FileInfo pass
PullableAlways(i) == TRUE

\* pull_file: `ensure!(info.b3.is_some(), ...)`
Pullable(i) == i.b3 # None

\* an existing target that is removed whatever --overwrite says
ExistingTargetRemoved(path) ==
    /\ fs' = [fs EXCEPT ![path] = NoFile]
    /\ pc' = "create_call"
    /\ UNCHANGED result

\* an existing target that is kept when --overwrite is given: the pull then
\* writes into it
ExistingTargetKept(path) ==
    IF ~overwrite
    THEN /\ Fail("file already exists")
         /\ UNCHANGED fs
    ELSE /\ pc' = "create_call"
         /\ UNCHANGED <<fs, result>>

\* pull_file: `if save_path.exists()`: refuse, or remove the file
ExistingTarget(path) ==
    IF ~overwrite
    THEN /\ Fail("file already exists")
         /\ UNCHANGED fs
    ELSE /\ fs' = [fs EXCEPT ![path] = NoFile]
         /\ pc' = "create_call"
         /\ UNCHANGED result

\* pull_file: the reply of get_file_info, and the steps up to create_pull: the
\* digest is required, the save path resolved, an existing target dealt with
RetGetFileInfo ==
    /\ pc = "info_wait"
    /\ \/ /\ Fail("get_file_info error")
          /\ trace' = Append(trace, Reply("get_file_info", 0, "err"))
          /\ UNCHANGED <<info, save_path, fs>>
       \/ \E c \in Contents, digest \in BOOLEAN :
            LET i == [name |-> RemoteName, size |-> Len(c),
                      b3 |-> IF digest THEN Some(blake3(c)) ELSE None]
                path == SavePath(save, i.name)
            IN /\ info' = i
               /\ trace' = Append(trace, Reply("get_file_info", 0, "ok"))
               /\ IF ~Pullable(i)
                  THEN /\ Fail("currently unable to pull file")
                       /\ UNCHANGED <<save_path, fs>>
                  ELSE /\ save_path' = path
                       /\ IF fs[path].exists
                          THEN ExistingTarget(path)
                          ELSE /\ pc' = "create_call"
                               /\ UNCHANGED <<fs, result>>
    /\ UNCHANGED <<argVars, uploads, locked, nextKey, key, success, msg, pushVars, save, fs0,
                   remote, offset, b3, created, deleted, wfsVars>>

\* pull_file: create_pull(file) is issued
CallCreatePull ==
    /\ pc = "create_call"
    /\ trace' = Append(trace, Rpc("create_pull", 0, 0, <<>>, <<>>))
    /\ pc' = "create_wait"
    /\ UNCHANGED <<argVars, result, uploads, locked, nextKey, key, success, msg, pushVars,
                   pullVars, wfsVars>>

\* pull_file: OpenOptions::new().create(true).write(true).open(save_path):
\* a missing file is created empty, an existing one is opened as it is
OpenCreate(f) == IF f.exists THEN f ELSE File(<<>>)

\* what the server may serve for a file whose FileInfo is i: the content the
\* digest of i is of, or that content cut by a byte, longer by a byte, or with
\* its last byte changed
Served(i) ==
    LET c == CHOOSE x \in Contents : blake3(x) = i.b3[1] IN
    {r \in Contents : \/ r = c
                      \/ r = SubSeq(c, 1, Len(c) - 1)
                      \/ c = SubSeq(r, 1, Len(r) - 1)
                      \/ /\ Len(r) = Len(c)
                         /\ SubSeq(r, 1, Len(r) - 1) = SubSeq(c, 1, Len(c) - 1)}

\* pull_file: the reply of create_pull: a new key (the server serves some
\* content under it), or an error; then the save file is opened
RetCreatePull ==
    /\ pc = "create_wait"
    /\ \/ /\ Fail("create_pull error")
          /\ trace' = Append(trace, Reply("create_pull", 0, "err"))
          /\ UNCHANGED <<nextKey, key, remote, fs, created, offset>>
       \/ \E c \in Served(info) :
            /\ key' = nextKey
            /\ nextKey' = nextKey + 1
            /\ remote' = c
            /\ fs' = [fs EXCEPT ![save_path] = OpenCreate(fs[save_path])]
            /\ created' = TRUE
            /\ offset' = 0
            /\ pc' = IF async THEN "init" ELSE "read_call"
            /\ trace' = Append(trace, Reply("create_pull", nextKey, "ok"))
            /\ UNCHANGED result
    /\ UNCHANGED <<argVars, uploads, locked, success, msg, pushVars, save, fs0, info, save_path,
                   b3, deleted, wfsVars>>

\* ---- sync pull
\* pull_file: read(key, offset, block) is issued
CallRead ==
    /\ pc = "read_call"
    /\ trace' = Append(trace, Rpc("read", key, offset, <<>>, <<block>>))
    /\ pc' = "read_wait"
    /\ UNCHANGED <<argVars, result, uploads, locked, nextKey, key, success, msg, pushVars,
                   pullVars, wfsVars>>

\* the server's read: up to blk bytes of the content, from off
ServerRead(content, off, blk) == SubSeq(content, off + 1, Min(off + blk, Len(content)))

\* a write that puts every buffer at the start of the file
Rewritten(f, data) == File(data)

\* pull_file: `fd.write_all(&data)`: the buffer goes where the last one ended
Appended(f, data) == File(f.data \o data)

\* pull_file: one turn of `while let Ok(data) = server.read(..).await`: the
\* buffer is written at the end of the save file; the loop ends on an empty
\* buffer and on an error alike, then the file is flushed and closed
RetRead ==
    /\ pc = "read_wait"
    /\ \/ /\ pc' = "finish_read"
          /\ trace' = Append(trace, Reply("read", key, "err"))
          /\ UNCHANGED <<offset, fs>>
       \/ LET data == ServerRead(remote, offset, block) IN
          IF data # <<>>
          THEN /\ offset' = offset + Len(data)
               /\ fs' = [fs EXCEPT ![save_path] = Appended(@, data)]
               /\ pc' = "read_call"
               /\ trace' = Append(trace, [Reply("read", key, "ok") EXCEPT !.data = data])
          ELSE /\ pc' = "finish_read"
               /\ trace' = Append(trace, Reply("read", key, "empty"))
               /\ UNCHANGED <<offset, fs>>
    /\ UNCHANGED <<argVars, result, uploads, locked, nextKey, key, success, msg, pushVars, save, fs0,
                   info, remote, save_path, b3, created, deleted, wfsVars>>

\* ---- async pull
\* pull_file: client.init(controller): the callback endpoint is installed
ClientInit ==
    /\ pc = "init"
    /\ \/ /\ Fail("init error")
          /\ UNCHANGED installed
       \/ /\ installed' = TRUE
          /\ pc' = "create_wfs"
          /\ UNCHANGED result
    /\ UNCHANGED <<argVars, histVars, nextKey, key, success, msg, pushVars, pullVars, registry,
                   chan, inflight, actor, logged>>

\* the write handle of a key: the file it writes and the cursor of its fd
Handle(k, path) == [key |-> k, path |-> path, pos |-> 0]

\* an insert that leaves the map as it was
InsertNothing(reg, h) == reg

\* HashMap::insert: the handle replaces any handle of the same key
Insert(reg, h) == {g \in reg : g.key # h.key} \cup {h}

\* create_wfs: the actor inserts the handle (the channel is new and empty)
CreateWfs ==
    /\ pc = "create_wfs"
    /\ actor = NoCall
    /\ registry' = Insert(registry, Handle(key, save_path))
    /\ chan' = <<>>
    /\ pc' = "async_read"
    /\ UNCHANGED <<argVars, result, histVars, nextKey, key, success, msg, pushVars, pullVars,
                   installed, inflight, actor, logged>>

\* the write_file_by_key calls the server makes for async_read(k, blk): the
\* content in pieces of blk bytes, each with its offset
RECURSIVE Chunks(_, _, _, _)
Chunks(k, content, off, blk) ==
    IF off >= Len(content) THEN {}
    ELSE {[key |-> k, offset |-> off, data |-> ServerRead(content, off, blk)]}
             \cup Chunks(k, content, off + blk, blk)

\* pull_file: async_read(key, block) is issued; no reply is awaited
CallAsyncRead ==
    /\ pc = "async_read"
    /\ trace' = Append(trace, Rpc("async_read", key, 0, <<>>, <<block>>))
    /\ inflight' = Chunks(key, remote, 0, block)
    /\ offset' = 0
    /\ pc' = "recv"
    /\ UNCHANGED <<argVars, result, uploads, locked, nextKey, key, success, msg, pushVars, save, fs,
                   fs0, info, remote, save_path, b3, created, deleted, installed, registry, chan,
                   actor, logged>>

\* pull_file: one turn of `while let Some(r_size) = rx.recv().await`
Recv ==
    /\ pc = "recv"
    /\ chan # <<>>
    /\ offset' = offset + Head(chan)
    /\ chan' = Tail(chan)
    /\ pc' = IF offset + Head(chan) >= info.size THEN "close" ELSE "recv"
    /\ UNCHANGED <<argVars, result, histVars, nextKey, key, success, msg, pushVars, save, fs, fs0,
                   info, remote, save_path, b3, created, deleted, installed, registry, inflight,
                   actor, logged>>

\* a remove that leaves the handle in the map
RemoveNothing(reg, k) == reg

\* HashMap::remove
Remove(reg, k) == {g \in reg : g.key # k}

\* close_wfs: the actor removes the handle of the key and flushes its file
CloseWfs ==
    /\ pc = "close"
    /\ actor = NoCall
    /\ registry' = Remove(registry, key)
    /\ pc' = "finish_read"
    /\ UNCHANGED <<argVars, result, histVars, nextKey, key, success, msg, pushVars, pullVars,
                   installed, chan, inflight, actor, logged>>

\* a write that puts only the first byte of the data in the file, as a
\* single `write` may, where write_all puts them all
WriteFirst(f, off, data) ==
    [i \in 1..(IF Len(f) > off + 1 THEN Len(f) ELSE off + 1) |->
        IF i = off + 1 THEN data[1]
        ELSE IF i <= Len(f) THEN f[i] ELSE 0]

\* a write that ignores the offset and puts the data at the end of the file
WriteAppend(f, off, data) == f \o data

\* the file with data written at offset off (a gap reads as zeros)
WriteAt(f, off, data) ==
    [i \in 1..(IF Len(f) > off + Len(data) THEN Len(f) ELSE off + Len(data)) |->
        IF i > off /\ i <= off + Len(data) THEN data[i - off]
        ELSE IF i <= Len(f) THEN f[i] ELSE 0]

\* a missing key whose error is returned to the command
WriteMissingFails ==
    /\ logged' = logged + 1
    /\ Fail("not found key")
    /\ UNCHANGED <<actor, registry>>

\* write_wfs_by_key on a key that is not registered: `bail!("not found key")`
\* before any seek or write; write_file_by_key logs the error and returns
WriteMissing ==
    /\ logged' = logged + 1
    /\ UNCHANGED <<actor, registry, pc, result>>

\* write_file_by_key -> write_wfs_by_key: the transport dispatches a call of
\* the server; the actor takes it when it is free, looks the key up and seeks
\* the handle's fd; a key that is not registered is an error, which
\* write_file_by_key logs
WriteBegin ==
    /\ installed
    /\ ~result.done
    /\ actor = NoCall
    /\ \E m \in inflight :
         /\ inflight' = inflight \ {m}
         /\ IF \E h \in registry : h.key = m.key
            THEN /\ actor' = [op |-> "write", step |-> "write", key |-> m.key,
                              offset |-> m.offset, data |-> m.data]
                 /\ registry' = {IF h.key = m.key THEN [h EXCEPT !.pos = m.offset] ELSE h : h \in registry}
                 /\ UNCHANGED <<logged, pc, result>>
            ELSE WriteMissing
    /\ UNCHANGED <<argVars, histVars, nextKey, key, success, msg, pushVars, pullVars,
                   installed, chan>>

\* a write whose call ends after write_all, with no count sent
WrittenAndLeft(a) == NoCall

\* write_wfs_by_key: after write_all the same closure goes on to tx.send
Written(a) == [a EXCEPT !.step = "send"]

\* write_wfs_by_key: `file.fd.write_all(&data)`, at the cursor of the fd
WriteData ==
    /\ actor.op = "write"
    /\ actor.step = "write"
    /\ ~result.done
    /\ \E h \in registry :
         /\ h.key = actor.key
         /\ fs' = [fs EXCEPT ![h.path] = File(WriteAt(@.data, h.pos, actor.data))]
         /\ registry' = (registry \ {h}) \cup {[h EXCEPT !.pos = h.pos + Len(actor.data)]}
    /\ actor' = Written(actor)
    /\ UNCHANGED <<argVars, pc, result, histVars, nextKey, key, success, msg, pushVars, save, fs0,
                   info, remote, save_path, offset, b3, created, deleted, installed, chan, inflight,
                   logged>>

\* a channel with no bound
CanSendAlways(c) == TRUE

\* a channel made by `tokio::sync::mpsc::channel(1024)` takes a count only
\* while it holds fewer than 1024
CanSend(c) == Len(c) < ChannelCap

\* write_wfs_by_key: `file.tx.send(data.len() as u64)`: waits while the
\* channel is full; then the actor is free again
WriteSend ==
    /\ actor.op = "write"
    /\ actor.step = "send"
    /\ ~result.done
    /\ CanSend(chan)
    /\ chan' = Append(chan, Len(actor.data))
    /\ actor' = NoCall
    /\ UNCHANGED <<argVars, pc, result, histVars, nextKey, key, success, msg, pushVars, pullVars,
                   installed, registry, inflight, logged>>

\* ---- the end of a pull
\* pull_file: finish_read_key(key) is issued; no reply is awaited
CallFinishReadKey ==
    /\ pc = "finish_read"
    /\ trace' = Append(trace, Rpc("finish_read_key", key, 0, <<>>, <<>>))
    /\ pc' = "verify"
    /\ UNCHANGED <<argVars, result, uploads, locked, nextKey, key, success, msg, pushVars,
                   pullVars, wfsVars>>

\* pull_file: `if &b3 != info.b3.as_ref().unwrap()`
Mismatch(local, remote_b3) == local # remote_b3[1]

\* pull_file: the saved file is hashed again (the hashing loop ends on the
\* first read error as it does on end of file) and compared with info.b3: on
\* a mismatch the file is removed and the command fails
Verify ==
    /\ pc = "verify"
    /\ \E h \in 0..Len(fs[save_path].data) :
         LET digest == blake3(SubSeq(fs[save_path].data, 1, h)) IN
         /\ b3' = Some(digest)
         /\ IF Mismatch(digest, info.b3)
            THEN /\ fs' = [fs EXCEPT ![save_path] = NoFile]
                 /\ deleted' = TRUE
                 /\ Fail("file read hash error")
            ELSE /\ pc' = "done"
                 /\ result' = Success
                 /\ UNCHANGED <<fs, deleted>>
    /\ UNCHANGED <<argVars, histVars, nextKey, key, success, msg, pushVars, save, fs0, info, remote,
                   save_path, offset, created, wfsVars>>

\* ------------------------------------------- the registry under any caller
\* FileWriteService driven by any caller: create_wfs, write_file_by_key and
\* close_wfs of any key, in any order.  In this harness chan holds the counts
\* sent on the progress channels, and trace records the close_wfs calls.
MaxCalls == 2
MaxCloses == 2

Keys == {1, 2}

\* the file the handle of key k writes
HandlePath(k) == IF k = 1 THEN <<"n">> ELSE <<"s">>

\* the offsets and the buffers of the write_file_by_key calls
Offsets == {0, 1}

Buffers == {<<1>>, <<2, 1>>}

\* the write_file_by_key calls dispatched so far
Dispatched ==
    Cardinality(inflight) + logged + Len(chan) + (IF actor = NoCall THEN 0 ELSE 1)

\* the state of a process whose callers drive the registry themselves: the
\* callback endpoint is installed and no command is running
InitCaller ==
    /\ pc = "registry"
    /\ async = TRUE
    /\ block = 1
    /\ overwrite = FALSE
    /\ files = <<>>
    /\ save = "none"
    /\ fs0 = [p \in Paths |-> NoFile]
    /\ idx = 1
    /\ info = NoInfo
    /\ remote = <<>>
    /\ save_path = NoPath
    /\ offset = 0
    /\ b3 = None
    /\ created = FALSE
    /\ deleted = FALSE
    /\ installed = TRUE
    /\ chan = <<>>
    /\ inflight = {}
    /\ actor = NoCall
    /\ logged = 0
    /\ result = Running
    /\ trace = <<>>
    /\ uploads = <<>>
    /\ locked = <<>>
    /\ nextKey = 1
    /\ check_files = <<>>
    /\ key = 0
    /\ fpos = 0
    /\ position = 0
    /\ len = 0
    /\ loopExit = "none"
    /\ retry_count = 0
    /\ success = FALSE
    /\ msg = ""

InitRegistry ==
    /\ InitCaller
    /\ cmd = "registry"
    /\ registry = {}
    /\ fs = fs0

\* create_wfs(k, WriteHandle::new(fd, tx)): the caller has opened the file;
\* the actor inserts the handle
RegCreate ==
    /\ pc = "registry"
    /\ actor = NoCall
    /\ \E k \in Keys :
         /\ ~\E h \in registry : h.key = k
         /\ fs' = [fs EXCEPT ![HandlePath(k)] = OpenCreate(@)]
         /\ registry' = Insert(registry, Handle(k, HandlePath(k)))
    /\ UNCHANGED <<argVars, pc, result, histVars, nextKey, key, success, msg, pushVars, save, fs0,
                   info, remote, save_path, offset, b3, created, deleted, installed, chan,
                   inflight, actor, logged>>

\* the transport dispatches a write_file_by_key(k, off, data) call: it waits
\* for the actor with the calls dispatched before it
RegDispatch ==
    /\ pc = "registry"
    /\ Dispatched < MaxCalls
    /\ \E k \in Keys, off \in Offsets, d \in Buffers :
         /\ inflight' = inflight \cup {[key |-> k, offset |-> off, data |-> d]}
    /\ UNCHANGED <<argVars, pc, result, histVars, nextKey, key, success, msg, pushVars, pullVars,
                   installed, registry, chan, actor, logged>>

\* a close that fails on a key with no handle, as write does
CloseResultStrict(found) == IF found THEN "ok" ELSE "err"

\* close_wfs: `if let Some(mut wfs) = ..remove(&key) { flush }; Ok(())`
CloseResult(found) == "ok"

\* close_wfs(k): the actor removes the handle of k, if there is one, and
\* flushes its file; the call returns Ok whether the key was there or not
RegClose ==
    /\ pc = "registry"
    /\ actor = NoCall
    /\ Len(trace) < MaxCloses
    /\ \E k \in Keys :
         /\ registry' = Remove(registry, k)
         /\ trace' = Append(trace, Rpc("close_wfs", k, 0, <<>>,
                                       <<\E h \in registry : h.key = k,
                                         CloseResult(\E h \in registry : h.key = k)>>))
    /\ UNCHANGED <<argVars, pc, result, uploads, locked, nextKey, key, success, msg, pushVars,
                   pullVars, installed, chan, inflight, actor, logged>>

\* ------------------------------------- the progress channel under backlog
\* The registry with the handle of key 1 in it, a caller that keeps sending
\* one-byte chunks for that key, and a receiver of the channel that may be
\* slow: the channel can fill up.
InitChannel ==
    /\ InitCaller
    /\ cmd = "channel"
    /\ registry = {Handle(1, HandlePath(1))}
    /\ fs = [fs0 EXCEPT ![HandlePath(1)] = File(<<>>)]

\* the transport dispatches one more write_file_by_key(1, 0, <<1>>) call
\* (calls on a key that was closed are counted by the log, which bounds them)
ChDispatch ==
    /\ pc = "registry"
    /\ logged < MaxCalls
    /\ inflight = {}
    /\ inflight' = {[key |-> 1, offset |-> 0, data |-> <<1>>]}
    /\ UNCHANGED <<argVars, pc, result, histVars, nextKey, key, success, msg, pushVars, pullVars,
                   installed, registry, chan, actor, logged>>

\* the receiver takes one count from the channel: `rx.recv().await`
ChRecv ==
    /\ pc = "registry"
    /\ chan # <<>>
    /\ chan' = Tail(chan)
    /\ UNCHANGED <<argVars, pc, result, histVars, nextKey, key, success, msg, pushVars, pullVars,
                   installed, registry, inflight, actor, logged>>

\* ================================================================ claims
\* the calls (and sleeps) of the running transfer, without the replies
Calls == SelectSeq(trace, LAMBDA e : e.op # "reply")

\* its data calls
DataCalls == SelectSeq(trace, LAMBDA e : e.op \in {"write", "write_offset"})

Count(op) == Len(SelectSeq(trace, LAMBDA e : e.op = op))

Issued(op) == \E i \in 1..Len(trace) : trace[i].op = op

Replied(op, outcome) == \E i \in 1..Len(trace) : trace[i] = Reply(op, trace[i].key, outcome)

\* the bytes of a sequence of calls, in order
RECURSIVE Concat(_)
Concat(cs) == IF cs = <<>> THEN <<>> ELSE cs[1].data \o Concat(Tail(cs))

\* the rank of a call in the order push, data, drain, push_finish
Phase(op) ==
    CASE op = "push" -> 1
      [] op \in {"write", "write_offset"} -> 2
      [] op \in {"check_finish", "sleep"} -> 3
      [] op = "push_finish" -> 4
      [] OTHER -> 0

\* C1: once a push has issued push_finish, its data calls, in issue order,
\* carry the bytes of the file from offset 0 on, each byte once and in order,
\* up to the size of the file; in async mode the offset of each write_offset
\* is the sum of the lengths of the chunks issued before it.
C1_DataCoversFile ==
    (cmd = "push" /\ Issued("push_finish")) =>
        /\ Concat(DataCalls) = CurFile.data
        /\ \A i \in 1..Len(DataCalls) :
             /\ DataCalls[i].key = key
             /\ DataCalls[i].data # <<>>
             /\ DataCalls[i].op = IF async THEN "write_offset" ELSE "write"
             /\ async => DataCalls[i].offset = Len(Concat(SubSeq(DataCalls, 1, i - 1)))

\* C2: the calls of a push come in the order push, data calls, check_finish
\* polls (async only), push_finish; push_finish is issued at most once, only
\* after the local file reached end of file and after the drain loop ended,
\* and no data call or check_finish follows it.
C2_PushOrder ==
    cmd = "push" =>
        /\ \A i, j \in 1..Len(Calls) : i < j => Phase(Calls[i].op) <= Phase(Calls[j].op)
        /\ Calls # <<>> => Calls[1].op = "push"
        /\ Count("push") <= 1
        /\ Count("push_finish") <= 1
        /\ ~async => Count("check_finish") = 0
        /\ Issued("push_finish") =>
             /\ loopExit = "eof"
             /\ async => \/ Replied("check_finish", "true")
                         \/ retry_count = RetryLimit

\* C3: after push_finish(K) or finish_read_key(K) was issued no call carries K
\* any more (in an image push the calls of a file carry the key of that file,
\* never the key of a file pushed before), and K is not in the registry.
C3_KeyNeverReused ==
    /\ \A i \in 1..Len(trace) :
         trace[i].op \in {"push_finish", "finish_read_key"} =>
            /\ \A j \in (i + 1)..Len(trace) :
                 trace[j].op # "reply" => trace[j].key # trace[i].key
            /\ \A h \in registry : h.key # trace[i].key
    /\ \A j \in 1..Len(trace), u \in 1..(Len(uploads) - 1) :
         trace[j].op # "reply" => trace[j].key # uploads[u].key
    /\ \A u \in 1..(Len(uploads) - 1) : uploads[u].finished /\ uploads[u].key # key

\* C3's case: an async pull has released its key
C3_Witness == cmd = "pull" /\ async /\ Issued("finish_read_key") /\ result.done

\* C4 as stated: at most 20 check_finish calls and at most 20 sleeps.
C4_AtMost20Polls ==
    cmd = "push" => (Count("check_finish") <= 20 /\ Count("sleep") <= 20)

\* C4, amended: in an async push at most 21 check_finish calls are issued
\* (the first poll and one after each sleep) and at most 20 sleeps, whatever
\* the replies.
C4_AtMost21Polls ==
    cmd = "push" =>
        /\ Count("check_finish") <= RetryLimit + 1
        /\ Count("sleep") <= RetryLimit
        /\ Count("sleep") = retry_count
        /\ Count("check_finish") <= Count("sleep") + 1

\* C4's case: every poll said false, and push_finish was issued
C4_Witness ==
    /\ cmd = "push"
    /\ Count("check_finish") = RetryLimit + 1
    /\ ~Replied("check_finish", "true")
    /\ Issued("push_finish")

\* lock returned (false, msg)
LockFalse == Replied("lock", "false")

\* C5: when lock returns (false, msg), no push, write, write_offset,
\* check_finish or push_finish is issued for any file of the batch.
C5_NoPushAfterRefusal ==
    LockFalse =>
        /\ uploads = <<>>
        /\ \A i \in 1..Len(trace) :
             trace[i].op \notin {"push", "write", "write_offset", "check_finish", "push_finish"}

\* C5's case: the lock was refused and the command is over
C5_Witness == LockFalse /\ pc = "done" /\ Len(files) = MaxFiles

\* C6: when lock returns (false, msg), the image push ends in an error whose
\* message is msg.
C6_RefusalIsError == LockFalse => (pc = "done" /\ ~result.ok /\ result.msg = msg)

\* the message main gets when a call fails
ErrorOf(op) ==
    CASE op = "lock" -> "lock error"
      [] op = "push" -> "push error"
      [] op = "write" -> "write error"
      [] op = "check_finish" -> "check_finish error"
      [] op = "push_finish" -> "push_finish error"
      [] OTHER -> ""

\* C7: after a successful lock the files go one at a time: a file is pushed
\* only when every file before it got its push_finish acknowledged, so at
\* most one key is unfinished; when a call fails it is the last thing the
\* command does, and the command returns that error.
C7_OneFileAtATime ==
    cmd = "image" =>
        /\ \A u \in 1..Len(uploads) : ~uploads[u].finished => u = Len(uploads)
        /\ Len(uploads) \in {idx - 1, idx}
        /\ \A u \in 1..Len(uploads) : uploads[u].name = check_files[u]
        /\ Issued("push") => \A u \in 1..(idx - 1) : uploads[u].finished
        /\ Issued("push") => success
        /\ \A i \in 1..Len(trace) :
             (trace[i].op = "reply" /\ trace[i].arg[2] = "err") =>
                /\ i = Len(trace)
                /\ pc = "done"
                /\ result = Failure(ErrorOf(trace[i].arg[1]))

\* C7's case: the first file is finished and a call of the second failed
C7_Witness ==
    /\ cmd = "image"
    /\ idx = 2
    /\ Len(uploads) = 2
    /\ uploads[1].finished
    /\ pc = "done"
    /\ ~result.ok

\* the save target was there when the pull started
TargetExisted == fs0[SavePath(save, RemoteName)].exists

PullCalls == {"create_pull", "read", "async_read", "finish_read_key"}

\* C8: when the save path exists and overwrite is false the pull fails with
\* the save-path conflict, issues no create_pull, read, async_read or
\* finish_read_key, and leaves the file as it was.
C8_ConflictRefused ==
    (cmd = "pull" /\ TargetExisted /\ ~overwrite) =>
        /\ \A i \in 1..Len(trace) : trace[i].op \notin PullCalls
        /\ fs = fs0
        /\ ~created
        /\ pc = "done" => ~result.ok
        /\ save_path # NoPath => result = Failure("file already exists")

\* C8's case: the path was resolved, the target exists, overwrite is false
C8_Witness ==
    /\ cmd = "pull"
    /\ TargetExisted
    /\ ~overwrite
    /\ save_path # NoPath
    /\ pc = "done"

\* get_file_info returned a FileInfo without digest
NoDigestReply == Replied("get_file_info", "ok") /\ info.b3 = None

\* C9: when the FileInfo has no BLAKE3 digest the pull fails at once: no
\* create_pull is issued and no local file is created, deleted or modified,
\* also when overwrite is true and the save target exists.
C9_NoDigestNoPull ==
    (cmd = "pull" /\ NoDigestReply) =>
        /\ result = Failure("currently unable to pull file")
        /\ pc = "done"
        /\ \A i \in 1..Len(trace) : trace[i].op \notin PullCalls
        /\ fs = fs0
        /\ ~created /\ ~deleted

\* C9's case: no digest, overwrite is true and the save target exists
C9_Witness == cmd = "pull" /\ NoDigestReply /\ overwrite /\ TargetExisted /\ pc = "done"


\* C10: a pull that created its save file removes it exactly when the digest
\* it recomputed differs from info.b3, and then fails with the hash error; a
\* pull that succeeds leaves at the save path a file whose digest is info.b3.
C10_DeleteIffMismatch ==
    (cmd = "pull" /\ created) =>
        /\ deleted <=> (b3 # None /\ b3 # info.b3)
        /\ deleted => (result = Failure("file read hash error") /\ ~fs[save_path].exists)
        /\ result = Success =>
             /\ fs[save_path].exists
             /\ Some(blake3(fs[save_path].data)) = info.b3

\* the chunks of the server partition [0, info.size): the served content has
\* the size get_file_info reported
ChunksPartition == Len(remote) = info.size

\* C11: in an async pull whose chunks partition [0, size), whatever the order
\* in which the write_file_by_key calls arrive and run, when the engine is
\* about to call close_wfs(key) the save file has info.size bytes and holds at
\* every offset the byte the server sent for it.
C11_BytesPlacedByOffset ==
    (cmd = "pull" /\ async /\ pc = "close" /\ ChunksPartition) =>
        /\ fs[save_path].exists
        /\ Len(fs[save_path].data) = info.size
        /\ \A i \in 1..info.size : fs[save_path].data[i] = remote[i]

\* C11's case: a file of several chunks has been received and the engine is
\* about to close
C11_Witness ==
    /\ cmd = "pull" /\ async /\ pc = "close" /\ ChunksPartition
    /\ info.size = MaxSize
    /\ block = 1

\* the running command is an async pull between create_wfs and the end of
\* close_wfs
Receiving == cmd = "pull" /\ async /\ pc \in {"async_read", "recv", "close"}

\* C12: the registry holds a handle for a key exactly while an async pull of
\* that key is between create_wfs and the end of close_wfs; it is empty
\* during a sync pull, during a push and after a pull has returned.
C12_RegistryIffReceiving ==
    /\ {h.key : h \in registry} = IF Receiving THEN {key} ELSE {}
    /\ Cardinality(registry) <= 1

\* C12's case: the handle is registered while chunks are being received
C12_Witness == Receiving /\ pc = "recv" /\ offset > 0 /\ registry # {}

\* the number of replies to op the client has seen
Replies(op) ==
    Len(SelectSeq(trace, LAMBDA e : e.op = "reply" /\ e.arg[1] = op))

\* C13: in a sync push at most one write is outstanding: a write is followed
\* by another only after it returned success, and the writes carry the bytes
\* of the file in source order.
C13_OneWriteOutstanding ==
    (cmd = "push" /\ ~async) =>
        /\ Count("write") - Replies("write") \in {0, 1}
        /\ \A i \in 1..Len(trace) :
             (trace[i].op = "write" /\ \E j \in (i + 1)..Len(trace) : trace[j].op = "write")
                 => trace[i + 1] = Reply("write", trace[i].key, "ok")
        /\ Concat(DataCalls) = SubSeq(CurFile.data, 1, Len(Concat(DataCalls)))

\* C13's case: a sync push has sent several writes
C13_Witness == cmd = "push" /\ ~async /\ Count("write") = MaxSize /\ pc = "done"

\* C14: in a sync pull a failed read ends the command with that error: once
\* a read has returned an error the pull has failed with it, and it goes on
\* to no further step.
C14_ReadErrorPropagates ==
    (cmd = "pull" /\ ~async /\ Replied("read", "err")) =>
        /\ result = Failure("read error")
        /\ pc = "done"

\* C15: in an async push the drain loop ends and push_finish is then issued,
\* also when every check_finish says false: from the first poll on, the push
\* gets to push_finish unless a check_finish call itself fails.
C15_DrainEndsInPushFinish ==
    (cmd = "push" /\ async /\ pc = "check_call")
        ~> (Issued("push_finish") \/ Replied("check_finish", "err"))

\* C15's case: every poll up to the last said false, and the push went on to
\* push_finish and returned
C15_Witness ==
    /\ cmd = "push" /\ async
    /\ Count("sleep") = RetryLimit
    /\ ~Replied("check_finish", "true")
    /\ ~Replied("check_finish", "err")
    /\ Issued("push_finish")
    /\ pc = "done"

\* the key of the pull has a handle in the registry
Registered == \E h \in registry : h.key = key

\* C16: the callback endpoint is installed and the handle of the key is in
\* the registry before async_read is issued, and while the engine is in its
\* receive loop no write_file_by_key has found the key absent.
C16_HandleBeforeAsyncRead ==
    (cmd = "pull" /\ async) =>
        /\ pc = "async_read" => (installed /\ Registered)
        /\ Issued("async_read") => installed
        /\ pc = "recv" => (Registered /\ logged = 0)

\* C16's case: after async_read a callback found the handle and is writing,
\* while the engine is in its receive loop
C16_Witness ==
    /\ cmd = "pull" /\ async /\ pc = "recv"
    /\ Issued("async_read")
    /\ actor.op = "write"
    /\ actor.key = key

\* C17: for every remote size, 0 included, an async pull whose chunks cover
\* [0, size) once leaves its receive loop, calls close_wfs and then
\* finish_read_key.
C17_AsyncPullFinishes ==
    (cmd = "pull" /\ async /\ pc = "recv" /\ ChunksPartition)
        ~> (Issued("finish_read_key") /\ ~Registered)

\* C18: a write_file_by_key call whose key has no handle in the registry
\* (never created, or already closed) fails there: the step that takes the
\* call writes no file, sends no count, leaves the registry as it was and
\* starts no write, and the error is only logged: the command goes on as
\* before.
C18_UnknownKeySwallowed ==
    [][\A m \in inflight :
          (m \notin inflight' /\ ~\E h \in registry : h.key = m.key) =>
              /\ logged' = logged + 1
              /\ UNCHANGED <<fs, chan, registry, actor, pc, result>>]_vars

\* C18's case: a chunk came after close_wfs, found no handle, and the pull
\* still ended in success
C18_Witness == cmd = "pull" /\ async /\ logged > 0 /\ result = Success

\* a write_file_by_key call is between its lookup and the end of its send
Writing == actor.op = "write"

\* C19: the registry runs one operation at a time: a write starts only when
\* no other is in progress; until it has sent its count nothing else seeks,
\* writes, inserts or removes; its data lands at its own offset in the file
\* of its key; and it ends only by sending the length of its data.
C19_WritesSerialized ==
    [][/\ (actor' # actor /\ actor'.op = "write" /\ actor'.step = "write") => actor = NoCall
       /\ (Writing /\ actor' = actor) => UNCHANGED <<registry, fs, chan>>
       /\ (Writing /\ actor' # actor /\ actor.step = "write") =>
             /\ actor' = [actor EXCEPT !.step = "send"]
             /\ \E h \in registry :
                  /\ h.key = actor.key
                  /\ fs' = [fs EXCEPT ![h.path] =
                               File(WriteAt(fs[h.path].data, actor.offset, actor.data))]
       /\ (Writing /\ actor' # actor /\ actor.step = "send") =>
             /\ actor' = NoCall
             /\ chan' = Append(chan, Len(actor.data))
             /\ UNCHANGED <<registry, fs>>]_vars

\* C19's case: a write of a key is in progress while another call on the
\* same key, with another offset, waits for the actor
C19_Witness ==
    /\ cmd = "registry"
    /\ Writing
    /\ actor.step = "send"
    /\ \E m \in inflight : m.key = actor.key /\ m.offset # actor.offset

\* the close_wfs call a step has made, if it made one
Closed(c) == trace' = Append(trace, c) /\ c.op = "close_wfs"

\* C20: close_wfs(k) removes the handle of k and no other, returns Ok, and
\* on a key with no handle it returns Ok and leaves the registry as it was:
\* a second close_wfs(k) changes nothing and gives the same result.
C20_CloseIdempotent ==
    [][trace' # trace =>
          LET c == trace'[Len(trace')] IN
          Closed(c) =>
              /\ c.arg[1] = (\E h \in registry : h.key = c.key)
              /\ c.arg[2] = "ok"
              /\ registry' = {h \in registry : h.key # c.key}
              /\ ~c.arg[1] => registry' = registry
              /\ ~\E h \in registry' : h.key = c.key
              /\ UNCHANGED <<fs, chan, logged>>]_vars

\* C20's case: close_wfs(k) removed the handle of k, and a second
\* close_wfs(k) found none
C20_Witness ==
    /\ cmd = "registry"
    /\ Len(trace) = 2
    /\ trace[1].op = "close_wfs" /\ trace[2].op = "close_wfs"
    /\ trace[1].key = trace[2].key
    /\ trace[1].arg[1] /\ ~trace[2].arg[1]
    /\ trace[2].arg[2] = "ok"
    /\ registry # {}

\* a registry write waits at its send because the channel is full
Blocked == actor.op = "write" /\ actor.step = "send" /\ Len(chan) = ChannelCap

\* C21: the progress channel never holds more than 1024 counts; a write
\* whose send finds it full waits until the receiver has taken a count, and
\* while it waits no other registry operation, write or close, on any key,
\* makes progress.
C21_Backpressure ==
    /\ [](Len(chan) <= ChannelCap)
    /\ [][Blocked =>
            /\ UNCHANGED <<registry, fs, actor, logged, trace>>
            /\ chan' # chan => chan' = Tail(chan)]_vars

\* C21's case: the channel is full, a write waits at its send and another
\* call waits for the actor
C21_Witness == cmd = "channel" /\ Blocked /\ inflight # {} /\ registry # {}

\* the replies to read, in order
ReadReplies == SelectSeq(trace, LAMBDA e : e.op = "reply" /\ e.arg[1] = "read")

\* the read calls, in order
ReadCalls == SelectSeq(trace, LAMBDA e : e.op = "read")

\* the number of bytes of the first n returned buffers
RECURSIVE Returned(_, _)
Returned(rs, n) == IF n = 0 THEN 0 ELSE Returned(rs, n - 1) + Len(rs[n].data)

\* C22: in a sync pull the offset of each read is the number of bytes the
\* earlier reads returned, a read is issued only after the buffer before it
\* was appended to the save file, no read follows an empty buffer, and when
\* the loop has ended on an empty buffer the save file is the returned
\* buffers, in order.
C22_SyncReadsAppend ==
    (cmd = "pull" /\ ~async /\ created) =>
        /\ \A n \in 1..Len(ReadCalls) : ReadCalls[n].offset = Returned(ReadReplies, n - 1)
        /\ Len(ReadCalls) - Len(ReadReplies) \in {0, 1}
        /\ \A n \in 1..Len(ReadReplies) :
             ReadReplies[n].arg[2] # "ok" => n = Len(ReadReplies) /\ n = Len(ReadCalls)
        /\ pc \in {"read_call", "read_wait"} => fs[save_path].data = Concat(ReadReplies)
        /\ (pc = "finish_read" /\ Replied("read", "empty")) =>
             fs[save_path].data = Concat(ReadReplies)

\* C22's case: a sync pull of several buffers has ended on an empty buffer
C22_Witness ==
    /\ cmd = "pull" /\ ~async /\ created
    /\ pc = "finish_read"
    /\ Replied("read", "empty")
    /\ Len(ReadCalls) = MaxSize + 1

\* the sum of the counts of a channel
RECURSIVE Sum(_)
Sum(c) == IF c = <<>> THEN 0 ELSE Head(c) + Sum(Tail(c))

\* the chunks of the pull that wait for the actor or are being written
Pending ==
    inflight \cup
        (IF actor.op = "write" /\ actor.step = "write"
         THEN {[key |-> actor.key, offset |-> actor.offset, data |-> actor.data]}
         ELSE {})

\* the chunks of the pull whose write_all is over
WrittenChunks == Chunks(key, remote, 0, block) \ Pending

\* the number of bytes of a set of chunks of one content
RECURSIVE Bytes(_)
Bytes(cs) ==
    IF cs = {} THEN 0
    ELSE LET c == CHOOSE x \in cs : TRUE IN Len(c.data) + Bytes(cs \ {c})

\* the bytes of chunk c are in the save file, at its offset
OnDisk(c) ==
    /\ Len(fs[save_path].data) >= c.offset + Len(c.data)
    /\ \A i \in 1..Len(c.data) : fs[save_path].data[c.offset + i] = c.data[i]

\* C23: in an async pull a count reaches the channel only after its chunk is
\* written at its offset: the counts received, those in the channel and the
\* one being sent are the bytes of the chunks written through the registry,
\* the engine has never received more than was written, and every chunk it
\* has counted, also when it sees offset >= size, is in the file.
C23_CountAfterWrite ==
    (cmd = "pull" /\ async /\ pc \in {"recv", "close"}) =>
        /\ offset + Sum(chan) + (IF actor.op = "write" /\ actor.step = "send"
                                 THEN Len(actor.data) ELSE 0) = Bytes(WrittenChunks)
        /\ offset <= Bytes(WrittenChunks)
        /\ \A c \in WrittenChunks : OnDisk(c)

\* C23's case: the engine has seen offset >= size after chunks of two bytes
C23_Witness ==
    /\ cmd = "pull" /\ async /\ pc = "close"
    /\ block = MaxBlock
    /\ offset >= info.size
    /\ info.size > MaxBlock

\* C24: in an image push lock is issued once, before any push; a file is
\* pushed under a name of the list given to lock: the files go in the order
\* of the list, the i-th local file under the i-th locked name.
C24_PushUnderLockedNames ==
    cmd = "image" =>
        /\ Len(locked) <= 1
        /\ (Issued("push") \/ uploads # <<>>) => Len(locked) = 1
        /\ locked # <<>> => locked[1] = CheckFiles(files)
        /\ \A u \in 1..Len(uploads) : uploads[u].name = locked[1][u]
        /\ \A i \in 1..Len(trace) :
             trace[i].op = "push" =>
                /\ trace[i].arg[1] = locked[1][idx]
                /\ trace[i].arg[1] = files[idx].name
                /\ trace[i].arg[2] = Len(files[idx].data)
                /\ \A j \in 1..Len(trace) : trace[j].op = "push" => j = i

\* C24's case: the last file of the tree is being pushed, after the others
C24_Witness ==
    /\ cmd = "image"
    /\ idx = MaxFiles
    /\ Issued("push")
    /\ Len(uploads) = MaxFiles
    /\ Len(files[1].data) # Len(files[idx].data)

PushAwaited == {"push", "write", "check_finish"}

\* C26: in a push, when push, a sync write or a check_finish poll returns an
\* error, the push returns that error at once: the failed reply is the last
\* event of the transfer, so no data call, no check_finish and no
\* push_finish follows it.
C26_PushErrorEndsPush ==
    cmd \in {"push", "image"} =>
        \A i \in 1..Len(trace) :
            (trace[i].op = "reply" /\ trace[i].arg[2] = "err" /\ trace[i].arg[1] \in PushAwaited) =>
                /\ i = Len(trace)
                /\ pc = "done"
                /\ result = Failure(ErrorOf(trace[i].arg[1]))
                /\ ~Issued("push_finish")

\* C26's case: a check_finish poll of an async push failed after data was
\* sent
C26_Witness ==
    /\ cmd = "push" /\ async
    /\ Replied("check_finish", "err")
    /\ Count("write_offset") > 0
    /\ Count("sleep") > 0

NextPush ==
    \/ CallPush
    \/ RetPush
    \/ ReadBlock
    \/ RetWrite
    \/ CallCheckFinish
    \/ RetCheckFinish
    \/ Sleep
    \/ CallPushFinish
    \/ RetPushFinish

NextImage ==
    \/ CallLock
    \/ RetLock
    \/ NextPush

\* the push command
SpecPush == InitPush /\ [][NextPush]_vars

\* the push command, which keeps running while it has a step to take: every
\* awaited call gets its reply or its error
FairPush == SpecPush /\ WF_vars(NextPush)

\* the image push command
SpecImage == InitImage /\ [][NextImage]_vars

NextPull ==
    \/ CallGetFileInfo
    \/ RetGetFileInfo
    \/ CallCreatePull
    \/ RetCreatePull
    \/ CallRead
    \/ RetRead
    \/ ClientInit
    \/ CreateWfs
    \/ CallAsyncRead
    \/ Recv
    \/ CloseWfs
    \/ WriteBegin
    \/ WriteData
    \/ WriteSend
    \/ CallFinishReadKey
    \/ Verify

\* the pull command
SpecPull == InitPull /\ [][NextPull]_vars

\* the pull command, which keeps running while it has a step to take: awaited
\* calls return, dispatched callbacks run, a waiting receiver is woken
FairPull == SpecPull /\ WF_vars(NextPull)

NextRegistry ==
    \/ RegCreate
    \/ RegDispatch
    \/ RegClose
    \/ WriteBegin
    \/ WriteData
    \/ WriteSend

\* the registry under any caller
SpecRegistry == InitRegistry /\ [][NextRegistry]_vars

NextWfs ==
    \/ NextPull
    \/ RegCreate
    \/ RegDispatch
    \/ RegClose

\* the callbacks of a pull, and the registry under any caller
SpecWfs == (InitPull \/ InitRegistry) /\ [][NextWfs]_vars

NextChannel ==
    \/ ChDispatch
    \/ ChRecv
    \/ RegClose
    \/ WriteBegin
    \/ WriteData
    \/ WriteSend

\* the progress channel under backlog
SpecChannel == InitChannel /\ [][NextChannel]_vars

\* any of the three commands
Init == InitPush \/ InitImage \/ InitPull

Next == NextImage \/ NextPull

Spec == Init /\ [][Next]_vars

====
